---- MODULE Spec2Model ----
(***************************************************************************)
(* Shift planner, roster builder and hire recommendation of                *)
(* src/src/App.jsx (buildShiftPlanStrategic, buildRoster,                  *)
(* computeHireRecommendations and the useMemo "aggregates" callback that   *)
(* drives them), as a state machine.                                       *)
(*                                                                         *)
(* A text field of the form is a sequence: << >> is the empty string,      *)
(* <<n>> the decimal text of the integer n.  A Staff figure of a forecast  *)
(* row is << >> when missing and <<k>> for the value k/2 (half units).     *)
(* A parsed number is a record: nan (parseInt gave NaN) or its value.      *)
(***************************************************************************)
EXTENDS Integers, Sequences, FiniteSets, TLC

\* ---------------------------------------------------------------- bounds
MaxReq == 2
MaxCap == 2
MaxLunch == 65

\* ------------------------------------------------------ program constants
H == 24
FT == 8
DefaultLunch == 30
SnapGrid == 30

Hours == 0..(H - 1)
Blank == << >>
NaN == [nan |-> TRUE, val |-> 0]
Num(n) == <<n>>

Max(a, b) == IF a >= b THEN a ELSE b
Min(a, b) == IF a <= b THEN a ELSE b

RECURSIVE SumFromTo(_, _, _)
SumFromTo(f, a, b) == IF a > b THEN 0 ELSE f[a] + SumFromTo(f, a + 1, b)

\* parseInt(text, 10) on the text of a number field
parseInt(f) == IF f = Blank THEN NaN ELSE [nan |-> FALSE, val |-> f[1]]

\* Math.max(0, parseInt(text, 10)) for a text that is never empty
clamp0(f) == Max(0, f[1])

\* a || b on strings: the first non-empty one
OrElse(a, b) == IF a # Blank THEN a ELSE b

isWeekendName(weekday) == weekday = "Saturday" \/ weekday = "Sunday"

\* Math.max(0, Math.ceil(r.Staff ?? 0)), Staff in half units
staffOf_floor(r) == IF r = Blank THEN 0 ELSE Max(0, r[1] \div 2)
staffOf(r) == IF r = Blank THEN 0 ELSE Max(0, (r[1] + 1) \div 2)

\* ------------------------------------------------------------------ state
VARIABLES
    \* form fields (useState) and the fetched schedule
    rows, weekday, capFT, capPT, totalFT, totalPT, strategy, mixedRatio,
    ptLen, ptLenWeekendOverride, ptLenWeekend, lunchMinutes,
    \* arguments and working state of buildShiftPlanStrategic
    requiredPerHourInt, limits, opts, deficit, covFT, covPT, placedFT, placedPT,
    shiftsFT, shiftsPT,
    \* position in placeLoop
    pc, turn, order, ft, pt, progress, iters,
    \* results of the useMemo callback, and those of the previous evaluation
    plan, roster, recs, runs, prev

inputs == <<rows, weekday, capFT, capPT, totalFT, totalPT, strategy, mixedRatio,
            ptLen, ptLenWeekendOverride, ptLenWeekend, lunchMinutes>>
args == <<requiredPerHourInt, limits, opts>>
work == <<deficit, covFT, covPT, placedFT, placedPT, shiftsFT, shiftsPT>>
loop == <<turn, order, ft, pt, progress, iters>>
results == <<plan, roster, recs>>
vars == <<inputs, args, work, loop, results, pc, runs, prev>>

\* ----------------------------------------------------------------- inputs
\* forecast rows: Staff per hour in half units, << >> when missing
Profile(kind, r) ==
    [h \in Hours |->
        CASE kind = "peak"    -> IF h = 8 THEN Num(2 * r) ELSE Num(0)
          [] kind = "plateau" -> IF h \in 9..16 THEN Num(2 * r - 1) ELSE Blank
          [] kind = "allday"  -> Num(2 * r)
          [] kind = "edges"   -> IF h \in 0..3 \/ h \in 20..23 THEN Num(2 * r) ELSE Num(-3)
          [] kind = "hump"    -> IF h \in 10..13 THEN Num(2 * r + 1)
                                 ELSE IF h \in 6..17 THEN Num(2) ELSE Num(0)
          [] kind = "early"   -> IF h = 0 \/ h \in 4..11 THEN Num(2 * r) ELSE Num(0)]

Kinds == {"peak", "plateau", "allday", "edges", "hump"}
Profiles == {Profile(k, MaxReq) : k \in Kinds} \cup {Profile("hump", r) : r \in 0..MaxReq}
FewProfiles == {Profile(k, MaxReq) : k \in {"hump", "edges"}}

StrategyCases ==
    {[strategy |-> s, weekday |-> "Monday", mixedRatio |-> Num(60)] : s \in {"ft_first", "pt_first"}}
    \cup {[strategy |-> "auto", weekday |-> d, mixedRatio |-> Num(60)] : d \in {"Monday", "Saturday"}}
    \cup {[strategy |-> "mixed", weekday |-> "Sunday", mixedRatio |-> m] :
            m \in {Num(50), Num(150)}}

PtCases ==
    {[ptLen |-> Num(4), ptLenWeekendOverride |-> FALSE, ptLenWeekend |-> Num(6)],
     [ptLen |-> Num(6), ptLenWeekendOverride |-> FALSE, ptLenWeekend |-> Num(6)],
     [ptLen |-> Num(4), ptLenWeekendOverride |-> TRUE, ptLenWeekend |-> Num(6)]}

Config(rw, sc, pl, cF, cP, tF, tP, L) ==
    [rows |-> rw, weekday |-> sc.weekday, strategy |-> sc.strategy,
     mixedRatio |-> sc.mixedRatio, ptLen |-> pl.ptLen,
     ptLenWeekendOverride |-> pl.ptLenWeekendOverride, ptLenWeekend |-> pl.ptLenWeekend,
     capFT |-> cF, capPT |-> cP, totalFT |-> tF, totalPT |-> tP, lunchMinutes |-> L]

Caps == {Num(n) : n \in 0..MaxCap}
Fields == {Blank, Num(-1), Num(0), Num(MaxCap)}
LunchFields == {Blank, Num(-5), Num(210), Num(225), Num(240), Num(241), Num(480), Num(600)}
                 \cup {Num(n) : n \in 0..MaxLunch}

\* caps bind, totals left blank
CapConfigs ==
    {Config(rw, sc, pl, cF, cP, Blank, Blank, Num(DefaultLunch)) :
        rw \in Profiles, sc \in StrategyCases, pl \in PtCases, cF \in Caps, cP \in Caps}
\* totals bind below the caps
TotalConfigs ==
    {Config(rw, sc, pl, Num(MaxCap), Num(MaxCap), tF, tP, Num(DefaultLunch)) :
        rw \in FewProfiles, sc \in StrategyCases, pl \in PtCases, tF \in Caps, tP \in Caps}
\* more people than seats: demand at hour 0 that only a window over the
\* busy hours 4..11 can reach
OverlapConfigs ==
    {Config(Profile("early", r), sc, pl, Num(c), Num(c), Num(MaxCap + 1), Num(MaxCap + 1),
            Num(DefaultLunch)) :
        r \in 1..MaxReq, c \in 1..MaxCap, sc \in StrategyCases, pl \in PtCases}
\* every way of filling or leaving blank the four limit fields
FieldConfigs ==
    {Config(Profile("hump", 1), [strategy |-> "ft_first", weekday |-> "Monday", mixedRatio |-> Num(60)],
            [ptLen |-> Num(4), ptLenWeekendOverride |-> FALSE, ptLenWeekend |-> Num(6)],
            cF, cP, tF, tP, Num(DefaultLunch)) :
        cF \in Fields, cP \in Fields, tF \in Fields, tP \in Fields}
\* lunch lengths
LunchConfigs ==
    {Config(rw, [strategy |-> "mixed", weekday |-> "Saturday", mixedRatio |-> m], pl,
            Num(1), Num(1), Blank, Blank, L) :
        rw \in FewProfiles, pl \in PtCases, L \in LunchFields, m \in {Blank}}
    \cup
    {Config(rw, [strategy |-> "mixed", weekday |-> "Saturday", mixedRatio |-> m], pl,
            Num(MaxCap), Num(MaxCap), Blank, Blank, Blank) :
        rw \in FewProfiles, pl \in PtCases, m \in {Blank, Num(-10), Num(0), Num(100)}}
\* the scenarios of the planner's description: a peak of 5 at hour 8 with
\* five full-timers, and a peak of 10 with ten concurrent seats but two people
ScenarioConfigs ==
    {Config([h \in Hours |-> IF h = 8 THEN Num(10) ELSE Num(0)],
            [strategy |-> "ft_first", weekday |-> "Monday", mixedRatio |-> Num(60)],
            [ptLen |-> Num(4), ptLenWeekendOverride |-> FALSE, ptLenWeekend |-> Num(6)],
            Num(5), Num(0), Num(5), Num(0), Num(DefaultLunch)),
     Config([h \in Hours |-> IF h = 12 THEN Num(20) ELSE Num(0)],
            [strategy |-> "ft_first", weekday |-> "Monday", mixedRatio |-> Num(60)],
            [ptLen |-> Num(4), ptLenWeekendOverride |-> FALSE, ptLenWeekend |-> Num(6)],
            Num(10), Num(0), Num(2), Blank, Num(DefaultLunch)),
     \* nobody to schedule and 3 required at hour 7: the shortage of scenario C
     Config([h \in Hours |-> IF h = 7 THEN Num(6) ELSE Num(0)],
            [strategy |-> "auto", weekday |-> "Monday", mixedRatio |-> Num(60)],
            [ptLen |-> Num(4), ptLenWeekendOverride |-> FALSE, ptLenWeekend |-> Num(6)],
            Num(0), Num(0), Blank, Blank, Num(DefaultLunch))}

Configs ==
    CapConfigs \cup TotalConfigs \cup OverlapConfigs \cup FieldConfigs \cup LunchConfigs
        \cup ScenarioConfigs

\* ------------------------------------------------- orchestrator (aggregates)
Null == [null |-> TRUE]
ZeroPerHour == [h \in Hours |-> 0]

staffInt == [h \in Hours |-> staffOf(rows[h])]

RECURSIVE MaxFromTo(_, _, _)
MaxFromTo(f, a, b) == IF a > b THEN 0 ELSE Max(f[a], MaxFromTo(f, a + 1, b))
peakStaff == MaxFromTo(staffInt, 0, H - 1)

weekend == isWeekendName(weekday)
ptHours ==
    IF weekend /\ ptLenWeekendOverride THEN parseInt(ptLenWeekend).val ELSE parseInt(ptLen).val

resolveCapFT == clamp0(OrElse(capFT, Num(peakStaff)))
resolveCapPT == clamp0(OrElse(capPT, Num(0)))
resolveMaxFTShifts_noCap == clamp0(OrElse(totalFT, Num(peakStaff)))
resolveMaxFTShifts == clamp0(OrElse(totalFT, OrElse(capFT, Num(peakStaff))))
resolveMaxPTShifts == clamp0(OrElse(totalPT, OrElse(capPT, Num(0))))

\* ---------------------------------------------------------------- planner
\* Array(H).fill(0): the coverage counters every call starts from
staleCovFT == covFT
freshCovFT == ZeroPerHour
freshCovPT == ZeroPerHour

PT_asFT == FT
PT == opts.ptLenHours
lastStartFT == H - FT
lastStartPT == H - PT

canPlaceFTAt_noCap(s) ==
    /\ ~(placedFT >= limits.maxFTShifts)
    /\ \A h \in s..(s + FT - 1) :
          ~(covFT[h] + covPT[h] >= limits.capFT + limits.capPT)

canPlaceFTAt(s) ==
    /\ ~(placedFT >= limits.maxFTShifts)
    /\ \A h \in s..(s + FT - 1) :
          /\ ~(covFT[h] >= limits.capFT)
          /\ ~(covFT[h] + covPT[h] >= limits.capFT + limits.capPT)

canPlacePTAt(s) ==
    /\ ~(placedPT >= limits.maxPTShifts)
    /\ \A h \in s..(s + PT - 1) :
          /\ ~(covPT[h] >= limits.capPT)
          /\ ~(covFT[h] + covPT[h] >= limits.capFT + limits.capPT)

scoreHour(h, type) ==
    LET totalRoom == Max(0, limits.capFT + limits.capPT - (covFT[h] + covPT[h]))
        roomType == IF type = "FT"
                    THEN Min(totalRoom, Max(0, limits.capFT - covFT[h]))
                    ELSE Min(totalRoom, Max(0, limits.capPT - covPT[h]))
    IN  IF totalRoom <= 0 THEN 0
        ELSE IF roomType > 0 THEN Min(deficit[h], roomType) ELSE 0

RECURSIVE scoreFrom(_, _, _)
scoreFrom(h, last, type) ==
    IF h > last THEN 0 ELSE scoreHour(h, type) + scoreFrom(h + 1, last, type)

scoreWindow(s, len, type) == scoreFrom(s, s + len - 1, type)

\* the scan of placeOneFT over startsFT: the running best score and its start
RECURSIVE scanFT_lastBest(_, _, _)
scanFT_lastBest(s, best, bestS) ==
    IF s > lastStartFT THEN [best |-> best, bestS |-> bestS]
    ELSE IF ~canPlaceFTAt(s) THEN scanFT_lastBest(s + 1, best, bestS)
    ELSE LET sc == scoreWindow(s, FT, "FT")
         IN  IF sc >= best THEN scanFT_lastBest(s + 1, sc, s)
             ELSE scanFT_lastBest(s + 1, best, bestS)

RECURSIVE scanFT(_, _, _)
scanFT(s, best, bestS) ==
    IF s > lastStartFT THEN [best |-> best, bestS |-> bestS]
    ELSE IF ~canPlaceFTAt(s) THEN scanFT(s + 1, best, bestS)
    ELSE LET sc == scoreWindow(s, FT, "FT")
         IN  IF sc > best THEN scanFT(s + 1, sc, s) ELSE scanFT(s + 1, best, bestS)

RECURSIVE scanPT_lastBest(_, _, _)
scanPT_lastBest(s, best, bestS) ==
    IF s > lastStartPT THEN [best |-> best, bestS |-> bestS]
    ELSE IF ~canPlacePTAt(s) THEN scanPT_lastBest(s + 1, best, bestS)
    ELSE LET sc == scoreWindow(s, PT, "PT")
         IN  IF sc >= best THEN scanPT_lastBest(s + 1, sc, s)
             ELSE scanPT_lastBest(s + 1, best, bestS)

RECURSIVE scanPT(_, _, _)
scanPT(s, best, bestS) ==
    IF s > lastStartPT THEN [best |-> best, bestS |-> bestS]
    ELSE IF ~canPlacePTAt(s) THEN scanPT(s + 1, best, bestS)
    ELSE LET sc == scoreWindow(s, PT, "PT")
         IN  IF sc > best THEN scanPT(s + 1, sc, s) ELSE scanPT(s + 1, best, bestS)

\* what placeOneFT / placeOnePT return, and the start they place
capsAllowFTAt(s) ==
    \A h \in s..(s + FT - 1) :
        /\ ~(covFT[h] >= limits.capFT)
        /\ ~(covFT[h] + covPT[h] >= limits.capFT + limits.capPT)

RECURSIVE scanFT_noTotal(_, _, _)
scanFT_noTotal(s, best, bestS) ==
    IF s > lastStartFT THEN [best |-> best, bestS |-> bestS]
    ELSE IF ~capsAllowFTAt(s) THEN scanFT_noTotal(s + 1, best, bestS)
    ELSE LET sc == scoreWindow(s, FT, "FT")
         IN  IF sc > best THEN scanFT_noTotal(s + 1, sc, s)
             ELSE scanFT_noTotal(s + 1, best, bestS)

placeOneFT_noTotal ==
    LET r == scanFT_noTotal(0, 0, -1) IN [ok |-> ~(r.best <= 0), bestS |-> r.bestS]

placeOneFT_anyScore ==
    IF placedFT >= limits.maxFTShifts THEN [ok |-> FALSE, bestS |-> -1]
    ELSE LET r == scanFT(0, -1, -1) IN [ok |-> ~(r.best < 0), bestS |-> r.bestS]

placeOneFT ==
    IF placedFT >= limits.maxFTShifts THEN [ok |-> FALSE, bestS |-> -1]
    ELSE LET r == scanFT(0, 0, -1) IN [ok |-> ~(r.best <= 0), bestS |-> r.bestS]

capsAllowPTAt(s) ==
    \A h \in s..(s + PT - 1) :
        /\ ~(covPT[h] >= limits.capPT)
        /\ ~(covFT[h] + covPT[h] >= limits.capFT + limits.capPT)

RECURSIVE scanPT_noTotal(_, _, _)
scanPT_noTotal(s, best, bestS) ==
    IF s > lastStartPT THEN [best |-> best, bestS |-> bestS]
    ELSE IF ~capsAllowPTAt(s) THEN scanPT_noTotal(s + 1, best, bestS)
    ELSE LET sc == scoreWindow(s, PT, "PT")
         IN  IF sc > best THEN scanPT_noTotal(s + 1, sc, s)
             ELSE scanPT_noTotal(s + 1, best, bestS)

placeOnePT_noTotal ==
    LET r == scanPT_noTotal(0, 0, -1) IN [ok |-> ~(r.best <= 0), bestS |-> r.bestS]

placeOnePT ==
    IF placedPT >= limits.maxPTShifts THEN [ok |-> FALSE, bestS |-> -1]
    ELSE LET r == scanPT(0, 0, -1) IN [ok |-> ~(r.best <= 0), bestS |-> r.bestS]

\* cov[h] += 1 and deficit[h] = Math.max(0, deficit[h] - 1) over the window
covered(cov, s, len) ==
    [h \in Hours |-> IF h >= s /\ h < s + len THEN cov[h] + 1 ELSE cov[h]]
reduced_unclamped(def, s, len) ==
    [h \in Hours |-> IF h >= s /\ h < s + len THEN def[h] - 1 ELSE def[h]]
reduced(def, s, len) ==
    [h \in Hours |-> IF h >= s /\ h < s + len THEN Max(0, def[h] - 1) ELSE def[h]]
window(s, len) == [start |-> s, end |-> s + len, count |-> 1]

\* --------------------------------------------------------------- placeLoop
Other(c) == IF c = "FT" THEN "PT" ELSE "FT"

\* share < target, with share = ft/(ft+pt) or 1 and target = clamp(percent)/100
shareBelowTarget_noClamp ==
    IF opts.mixedFtPercent.nan THEN FALSE
    ELSE LET t == opts.mixedFtPercent.val
         IN  IF ft + pt > 0 THEN ft * 100 < t * (ft + pt) ELSE 100 < t

shareBelowTarget ==
    IF opts.mixedFtPercent.nan THEN FALSE
    ELSE LET t == Min(100, Max(0, opts.mixedFtPercent.val))
         IN  IF ft + pt > 0 THEN ft * 100 < t * (ft + pt) ELSE 100 < t

\* the class an iteration of the loop attempts first
firstClass_weekendOnly == IF opts.isWeekend THEN "PT" ELSE "FT"

firstClass_ignoreWeekend ==
    IF opts.strategy = "ft_first" THEN "FT"
    ELSE IF opts.strategy = "pt_first" THEN "PT"
    ELSE IF opts.strategy = "mixed" THEN (IF shareBelowTarget THEN "FT" ELSE "PT")
    ELSE "FT"

firstClass ==
    IF opts.strategy = "ft_first" THEN "FT"
    ELSE IF opts.strategy = "pt_first" THEN "PT"
    ELSE IF opts.strategy = "mixed" THEN (IF shareBelowTarget THEN "FT" ELSE "PT")
    ELSE IF opts.isWeekend THEN "PT" ELSE "FT"

due == IF turn = "first" THEN firstClass ELSE Other(order)

\* the loop's control after one call of placeOneFT / placeOnePT returned ok
Advance_noReset(cls, ok) ==
    /\ iters' = IF turn = "first" THEN iters + 1 ELSE iters
    /\ order' = IF turn = "first" THEN cls ELSE order
    /\ IF opts.strategy = "mixed"
       THEN /\ ft' = IF ok /\ cls = "FT" THEN ft + 1 ELSE ft
            /\ pt' = IF ok /\ cls = "PT" THEN pt + 1 ELSE pt
            /\ progress' = (progress \/ ok)
            /\ turn' = IF turn = "first" THEN "second" ELSE "first"
            /\ pc' = IF turn = "second" /\ ~progress' THEN "merge" ELSE "loop"
       ELSE /\ UNCHANGED <<ft, pt, progress>>
            /\ turn' = IF ~ok /\ turn = "first" THEN "second" ELSE "first"
            /\ pc' = IF ~ok /\ turn = "second" THEN "merge" ELSE "loop"

Advance_stopOnFail(cls, ok) ==
    /\ iters' = IF turn = "first" THEN iters + 1 ELSE iters
    /\ order' = IF turn = "first" THEN cls ELSE order
    /\ IF opts.strategy = "mixed"
       THEN /\ ft' = IF ok /\ cls = "FT" THEN ft + 1 ELSE ft
            /\ pt' = IF ok /\ cls = "PT" THEN pt + 1 ELSE pt
            /\ progress' = IF turn = "first" THEN ok ELSE (progress \/ ok)
            /\ turn' = IF turn = "first" THEN "second" ELSE "first"
            /\ pc' = IF turn = "second" /\ ~progress' THEN "merge" ELSE "loop"
       ELSE /\ UNCHANGED <<ft, pt, progress>>
            /\ turn' = "first"
            /\ pc' = IF ~ok THEN "merge" ELSE "loop"

Advance(cls, ok) ==
    /\ iters' = IF turn = "first" THEN iters + 1 ELSE iters
    /\ order' = IF turn = "first" THEN cls ELSE order
    /\ IF opts.strategy = "mixed"
       THEN /\ ft' = IF ok /\ cls = "FT" THEN ft + 1 ELSE ft
            /\ pt' = IF ok /\ cls = "PT" THEN pt + 1 ELSE pt
            /\ progress' = IF turn = "first" THEN ok ELSE (progress \/ ok)
            /\ turn' = IF turn = "first" THEN "second" ELSE "first"
            /\ pc' = IF turn = "second" /\ ~progress' THEN "merge" ELSE "loop"
       ELSE /\ UNCHANGED <<ft, pt, progress>>
            /\ turn' = IF ~ok /\ turn = "first" THEN "second" ELSE "first"
            /\ pc' = IF ~ok /\ turn = "second" THEN "merge" ELSE "loop"

\* ------------------------------------------------- merge and the PlanResult
\* the comparator of arr.sort: negative when a goes before b
Before(a, b) == a.start < b.start \/ (a.start = b.start /\ a.end < b.end)

RECURSIVE Insert(_, _, _)
Insert(sorted, p, i) ==
    IF i > Len(sorted) THEN Append(sorted, p)
    ELSE IF Before(p, sorted[i])
         THEN SubSeq(sorted, 1, i - 1) \o <<p>> \o SubSeq(sorted, i, Len(sorted))
         ELSE Insert(sorted, p, i + 1)

RECURSIVE sortFrom(_, _, _)
sortFrom(arr, i, sorted) ==
    IF i > Len(arr) THEN sorted ELSE sortFrom(arr, i + 1, Insert(sorted, arr[i], 1))

\* arr.sort((a, b) => a.start - b.start || a.end - b.end), a stable sort
sortShifts(arr) == sortFrom(arr, 1, << >>)

RECURSIVE mergeFrom_dropCount(_, _, _)
mergeFrom_dropCount(sorted, i, out) ==
    IF i > Len(sorted) THEN out
    ELSE LET p == sorted[i]
             n == Len(out)
         IN  IF n > 0 /\ out[n].start = p.start /\ out[n].end = p.end
             THEN mergeFrom_dropCount(sorted, i + 1, out)
             ELSE mergeFrom_dropCount(sorted, i + 1, Append(out, p))

RECURSIVE mergeFrom(_, _, _)
mergeFrom(sorted, i, out) ==
    IF i > Len(sorted) THEN out
    ELSE LET p == sorted[i]
             n == Len(out)
         IN  IF n > 0 /\ out[n].start = p.start /\ out[n].end = p.end
             THEN mergeFrom(sorted, i + 1, [out EXCEPT ![n].count = out[n].count + p.count])
             ELSE mergeFrom(sorted, i + 1, Append(out, p))

merge_noSort(arr) == mergeFrom(arr, 1, << >>)
merge(arr) == mergeFrom(sortShifts(arr), 1, << >>)

coverageOf(cF, cP) == [h \in Hours |-> cF[h] + cP[h]]
shortageOf_unclamped(cov, req) == [h \in Hours |-> req[h] - cov[h]]
shortageOf(cov, req) == [h \in Hours |-> Max(0, req[h] - cov[h])]
excessOf(cov, req) == [h \in Hours |-> Max(0, cov[h] - req[h])]

planResult ==
    LET coverage == coverageOf(covFT, covPT)
        shortage == shortageOf(coverage, requiredPerHourInt)
    IN  [shiftsFT |-> merge(shiftsFT),
         shiftsPT |-> merge(shiftsPT),
         coverage |-> coverage,
         required |-> requiredPerHourInt,
         shortage |-> shortage,
         excess |-> excessOf(coverage, requiredPerHourInt),
         maxConcurrent |-> MaxFromTo(coverage, 0, H - 1),
         limits |-> limits,
         hoursShort |-> Cardinality({h \in Hours : shortage[h] > 0}),
         totalShortUnits |-> SumFromTo(shortage, 0, H - 1)]

\* ------------------------------------------------------------------ roster
\* Math.round(minutes / 30) * 30, minutes given in half minutes
snap30_floor(halfMinutes) == (halfMinutes \div (2 * SnapGrid)) * SnapGrid
snap30(halfMinutes) == ((halfMinutes + SnapGrid) \div (2 * SnapGrid)) * SnapGrid

lunchDurOf_default(L) == DefaultLunch
lunchDurOf(L) == Max(0, OrElse(L, Num(DefaultLunch))[1])

\* the entry pushed by add(type, start, end, L) for the employee numbered id
add_noClamp(type, id, start, end, L) ==
    LET lenH == end - start
        durMin == lenH * 60
        lunchDur == lunchDurOf(L)
        mid2 == 2 * (start * 60) + durMin
        ls == snap30(mid2 - lunchDur)
        le == ls + lunchDur
    IN  [agent |-> <<type, id>>, type |-> type, start |-> start, end |-> end,
         hours |-> lenH, lunchStart |-> ls, lunchEnd |-> le]

add(type, id, start, end, L) ==
    LET lenH == end - start
        durMin == lenH * 60
        lunchDur == lunchDurOf(L)
        mid2 == 2 * (start * 60) + durMin
        ls == snap30(mid2 - lunchDur)
        le == ls + lunchDur
    IN  [agent |-> <<type, id>>, type |-> type, start |-> start, end |-> end,
         hours |-> lenH,
         lunchStart |-> Max(start * 60, ls),
         lunchEnd |-> Min(end * 60, le)]

\* for (const s of shifts) for (k < s.count) add(type, ...), ids from nextId
RECURSIVE unroll_oneMore(_, _, _, _, _, _)
unroll_oneMore(type, shifts, i, k, nextId, L) ==
    IF i > Len(shifts) THEN << >>
    ELSE IF k > shifts[i].count THEN unroll_oneMore(type, shifts, i + 1, 0, nextId, L)
    ELSE <<add(type, nextId, shifts[i].start, shifts[i].end, L)>>
            \o unroll_oneMore(type, shifts, i, k + 1, nextId + 1, L)

RECURSIVE unroll(_, _, _, _, _, _)
unroll(type, shifts, i, k, nextId, L) ==
    IF i > Len(shifts) THEN << >>
    ELSE IF k >= shifts[i].count THEN unroll(type, shifts, i + 1, 0, nextId, L)
    ELSE <<add(type, nextId, shifts[i].start, shifts[i].end, L)>>
            \o unroll(type, shifts, i, k + 1, nextId + 1, L)

buildRoster_sharedId(sFT, sPT, lunchMin) ==
    LET rFT == unroll("FT", sFT, 1, 0, 1, lunchMin)
    IN  rFT \o unroll("PT", sPT, 1, 0, Len(rFT) + 1, lunchMin)

buildRoster(sFT, sPT, lunchMin) ==
    unroll("FT", sFT, 1, 0, 1, lunchMin) \o unroll("PT", sPT, 1, 0, 1, lunchMin)

\* ---------------------------------------------------- hire recommendations
ceilDiv_plusOne(a, b) == a \div b + 1
ceilDiv_floor(a, b) == a \div b
ceilDiv(a, b) == -((-a) \div b)

computeHireRecommendations_peakFloor(p, ptLenHours) ==
    IF Cardinality(DOMAIN p.shortage) = 0 THEN Null
    ELSE LET totalShort == p.totalShortUnits
             peakShort == MaxFromTo(p.shortage, 0, H - 1)
             mixFT == Max(peakShort, totalShort \div 8)
             mixResidual == Max(0, totalShort - mixFT * 8)
         IN  [totalShort |-> totalShort,
              peakShort |-> peakShort,
              minFT8 |-> Max(ceilDiv(totalShort, 8), peakShort),
              minPTcur |-> Max(ceilDiv(totalShort, ptLenHours), peakShort),
              minPT4 |-> Max(ceilDiv(totalShort, 4), peakShort),
              minPT6 |-> Max(ceilDiv(totalShort, 6), peakShort),
              mixed |-> [ft |-> mixFT, pt |-> ceilDiv(mixResidual, ptLenHours),
                         ptLenHours |-> ptLenHours]]

computeHireRecommendations(p, ptLenHours) ==
    IF Cardinality(DOMAIN p.shortage) = 0 THEN Null
    ELSE LET totalShort == p.totalShortUnits
             peakShort == MaxFromTo(p.shortage, 0, H - 1)
             mixFT == Max(peakShort, totalShort \div 8)
             mixResidual == Max(0, totalShort - mixFT * 8)
         IN  [totalShort |-> totalShort,
              peakShort |-> peakShort,
              minFT8 |-> Max(ceilDiv(totalShort, 8), peakShort),
              minPTcur |-> ceilDiv(totalShort, ptLenHours),
              minPT4 |-> ceilDiv(totalShort, 4),
              minPT6 |-> ceilDiv(totalShort, 6),
              mixed |-> [ft |-> mixFT, pt |-> ceilDiv(mixResidual, ptLenHours),
                         ptLenHours |-> ptLenHours]]

\* ----------------------------------------------------------------- actions
Init ==
    /\ \E c \in Configs :
          /\ rows = c.rows /\ weekday = c.weekday
          /\ capFT = c.capFT /\ capPT = c.capPT
          /\ totalFT = c.totalFT /\ totalPT = c.totalPT
          /\ strategy = c.strategy /\ mixedRatio = c.mixedRatio
          /\ ptLen = c.ptLen /\ ptLenWeekendOverride = c.ptLenWeekendOverride
          /\ ptLenWeekend = c.ptLenWeekend /\ lunchMinutes = c.lunchMinutes
    /\ requiredPerHourInt = ZeroPerHour
    /\ limits = [capFT |-> 0, capPT |-> 0, maxFTShifts |-> 0, maxPTShifts |-> 0]
    /\ opts = [strategy |-> "auto", mixedFtPercent |-> NaN, isWeekend |-> FALSE, ptLenHours |-> 4]
    /\ deficit = ZeroPerHour /\ covFT = ZeroPerHour /\ covPT = ZeroPerHour
    /\ placedFT = 0 /\ placedPT = 0 /\ shiftsFT = << >> /\ shiftsPT = << >>
    /\ pc = "aggregates" /\ turn = "first" /\ order = "FT"
    /\ ft = 0 /\ pt = 0 /\ progress = TRUE /\ iters = 0
    /\ plan = Null /\ roster = << >> /\ recs = Null
    /\ runs = 0 /\ prev = Null

\* the useMemo callback up to the call of placeLoop: the requirement vector,
\* the limits and options, and the fresh working state of the planner
Aggregates ==
    /\ pc = "aggregates"
    /\ requiredPerHourInt' = staffInt
    /\ limits' = [capFT |-> resolveCapFT, capPT |-> resolveCapPT,
                  maxFTShifts |-> resolveMaxFTShifts, maxPTShifts |-> resolveMaxPTShifts]
    /\ opts' = [strategy |-> strategy, mixedFtPercent |-> parseInt(mixedRatio),
                isWeekend |-> weekend, ptLenHours |-> ptHours]
    /\ deficit' = staffInt
    /\ covFT' = freshCovFT /\ covPT' = freshCovPT
    /\ placedFT' = 0 /\ placedPT' = 0
    /\ shiftsFT' = << >> /\ shiftsPT' = << >>
    /\ turn' = "first" /\ order' = "FT" /\ ft' = 0 /\ pt' = 0
    /\ progress' = TRUE /\ iters' = 0
    /\ plan' = Null /\ roster' = << >> /\ recs' = Null
    /\ runs' = runs + 1
    /\ pc' = "loop"
    /\ UNCHANGED <<inputs, prev>>

CallPlaceOneFT ==
    /\ pc = "loop" /\ due = "FT"
    /\ LET r == placeOneFT
       IN  /\ IF r.ok
              THEN /\ shiftsFT' = Append(shiftsFT, window(r.bestS, FT))
                   /\ covFT' = covered(covFT, r.bestS, FT)
                   /\ deficit' = reduced(deficit, r.bestS, FT)
                   /\ placedFT' = placedFT + 1
              ELSE UNCHANGED <<shiftsFT, covFT, deficit, placedFT>>
           /\ Advance("FT", r.ok)
    /\ UNCHANGED <<inputs, args, covPT, placedPT, shiftsPT, results, runs, prev>>

CallPlaceOnePT ==
    /\ pc = "loop" /\ due = "PT"
    /\ LET r == placeOnePT
       IN  /\ IF r.ok
              THEN /\ shiftsPT' = Append(shiftsPT, window(r.bestS, PT))
                   /\ covPT' = covered(covPT, r.bestS, PT)
                   /\ deficit' = reduced(deficit, r.bestS, PT)
                   /\ placedPT' = placedPT + 1
              ELSE UNCHANGED <<shiftsPT, covPT, deficit, placedPT>>
           /\ Advance("PT", r.ok)
    /\ UNCHANGED <<inputs, args, covFT, placedFT, shiftsFT, results, runs, prev>>

\* the rest of buildShiftPlanStrategic: merge (which sorts the placed lists
\* in place) and the derived vectors
Finish ==
    /\ pc = "merge"
    /\ plan' = planResult
    /\ shiftsFT' = sortShifts(shiftsFT)
    /\ shiftsPT' = sortShifts(shiftsPT)
    /\ pc' = "roster"
    /\ UNCHANGED <<inputs, args, deficit, covFT, covPT, placedFT, placedPT, loop,
                   roster, recs, runs, prev>>

BuildRoster ==
    /\ pc = "roster"
    /\ roster' = buildRoster(plan.shiftsFT, plan.shiftsPT, lunchMinutes)
    /\ pc' = "recs"
    /\ UNCHANGED <<inputs, args, work, loop, plan, recs, runs, prev>>

Recommend ==
    /\ pc = "recs"
    /\ recs' = computeHireRecommendations(plan, ptHours)
    /\ pc' = "done"
    /\ UNCHANGED <<inputs, args, work, loop, plan, roster, runs, prev>>

\* React evaluates the callback again with the same form state; the results
\* of the finished evaluation are kept for comparison
Rerun ==
    /\ pc = "done" /\ prev = Null
    /\ prev' = [plan |-> plan, roster |-> roster, recs |-> recs, strategy |-> strategy]
    /\ pc' = "aggregates"
    /\ UNCHANGED <<inputs, args, work, loop, results, runs>>

\* the strategy select's onChange: setStrategy(e.target.value), after which
\* the callback is evaluated again.  The change followed here is the one
\* from auto to one of the two fixed orders.
ChangeStrategy ==
    /\ pc = "done" /\ prev = Null /\ strategy = "auto"
    /\ \E v \in {"ft_first", "pt_first"} : strategy' = v
    /\ prev' = [plan |-> plan, roster |-> roster, recs |-> recs, strategy |-> strategy]
    /\ pc' = "aggregates"
    /\ UNCHANGED <<rows, weekday, capFT, capPT, totalFT, totalPT, mixedRatio,
                   ptLen, ptLenWeekendOverride, ptLenWeekend, lunchMinutes,
                   args, work, loop, results, runs>>

Next ==
    \/ Aggregates
    \/ CallPlaceOneFT
    \/ CallPlaceOnePT
    \/ Finish
    \/ BuildRoster
    \/ Recommend
    \/ Rerun
    \/ ChangeStrategy

Spec == Init /\ [][Next]_vars

\* ================================================================= claims
Planned == pc \in {"roster", "recs", "done"}
Rostered == pc \in {"recs", "done"}

RECURSIVE CountSum(_, _)
CountSum(shifts, i) == IF i > Len(shifts) THEN 0 ELSE shifts[i].count + CountSum(shifts, i + 1)

RECURSIVE CoverSum(_, _, _)
CoverSum(shifts, i, h) ==
    IF i > Len(shifts) THEN 0
    ELSE (IF shifts[i].start <= h /\ h < shifts[i].end THEN shifts[i].count ELSE 0)
            + CoverSum(shifts, i + 1, h)

EntriesOf(type) == {i \in 1..Len(roster) : roster[i].type = type}
EntriesAt(type, w) ==
    {i \in EntriesOf(type) : roster[i].start = w.start /\ roster[i].end = w.end}

\* C1 - cap invariant: in every state of a planning run and for every hour,
\* the full-time coverage is at most capFT, the part-time coverage at most
\* capPT, and their sum at most capFT + capPT.
C1_CapInvariant ==
    \A h \in Hours :
        /\ covFT[h] <= limits.capFT
        /\ covPT[h] <= limits.capPT
        /\ covFT[h] + covPT[h] <= limits.capFT + limits.capPT

C1_Witness ==
    /\ pc = "loop" /\ placedFT > 0 /\ placedPT > 0
    /\ placedFT < limits.maxFTShifts
    /\ \E h \in Hours : covFT[h] = limits.capFT /\ covPT[h] = limits.capPT
    /\ \E s \in 0..lastStartFT : ~canPlaceFTAt(s) /\ scoreWindow(s, FT, "FT") > 0

\* C2 - headcount invariant: the number of FT (PT) shifts placed never
\* exceeds maxFTShifts (maxPTShifts), also when the cap is larger than the
\* total, and the counts of the returned windows sum to at most the totals.
C2_HeadcountInvariant ==
    /\ placedFT <= limits.maxFTShifts
    /\ placedPT <= limits.maxPTShifts
    /\ Planned => /\ CountSum(plan.shiftsFT, 1) <= limits.maxFTShifts
                  /\ CountSum(plan.shiftsPT, 1) <= limits.maxPTShifts

C2_Witness ==
    /\ Planned
    /\ limits.capFT = 10 /\ limits.maxFTShifts = 2
    /\ placedFT = 2 /\ CountSum(plan.shiftsFT, 1) = 2
    /\ \E h \in Hours : plan.required[h] = 10 /\ plan.shortage[h] = 8

\* C3 - termination bound: the placement loop performs at most
\* maxFTShifts + maxPTShifts + 2 outer iterations, and it ends: every call
\* of placeOneFT / placeOnePT that stays in the loop strictly decreases
\* LoopVariant, a natural number while the bound holds.
IterationBound == limits.maxFTShifts + limits.maxPTShifts + 2
LoopVariant == 2 * (IterationBound - iters) + (IF turn = "second" THEN 1 ELSE 0)

C3_TerminationBound ==
    [][/\ iters' <= IterationBound'
       /\ (pc = "loop" /\ pc' = "loop") => (LoopVariant' < LoopVariant /\ LoopVariant' >= 0)
       /\ pc = "loop" => pc' \in {"loop", "merge"}]_vars

C3_Witness ==
    /\ pc = "merge" /\ opts.strategy = "mixed"
    /\ placedFT > 0 /\ placedPT > 0
    /\ iters = placedFT + placedPT /\ iters > 2

\* C4 - shortage consistency: in the returned plan, coverage is the sum of
\* the two coverage counters, shortage and excess are the positive and the
\* negative part of required - coverage, and never both positive.
C4_ShortageConsistency ==
    Planned =>
        \A h \in Hours :
            /\ plan.coverage[h] = covFT[h] + covPT[h]
            /\ plan.shortage[h] >= 0 /\ plan.excess[h] >= 0
            /\ plan.shortage[h] - plan.excess[h] = plan.required[h] - plan.coverage[h]
            /\ ~(plan.shortage[h] > 0 /\ plan.excess[h] > 0)

C4_Witness ==
    /\ Planned
    /\ \E h \in Hours : plan.shortage[h] > 0 /\ plan.coverage[h] > 0
    /\ \E h \in Hours : plan.excess[h] > 0 /\ plan.required[h] > 0

\* C5 - coverage is the windows' coverage: for every hour, the returned
\* coverage equals the sum of count over the merged FT and PT windows that
\* contain the hour.
C5_CoverageFromWindows ==
    Planned =>
        \A h \in Hours :
            plan.coverage[h] = CoverSum(plan.shiftsFT, 1, h) + CoverSum(plan.shiftsPT, 1, h)

C5_Witness ==
    /\ Planned
    /\ \E i \in 1..Len(plan.shiftsPT) : plan.shiftsPT[i].count >= 2
    /\ \E h \in Hours : CoverSum(plan.shiftsFT, 1, h) >= 1 /\ CoverSum(plan.shiftsPT, 1, h) >= 2

\* C6 - determinism: a second evaluation on the same form state and rows
\* returns the same plan and the same roster, in the same order.
C6_Determinism ==
    (pc = "done" /\ prev # Null /\ prev.strategy = strategy) =>
        /\ plan = prev.plan
        /\ roster = prev.roster

C6_Witness ==
    /\ pc = "done" /\ prev # Null /\ prev.strategy = strategy
    /\ Len(plan.shiftsFT) >= 1 /\ Len(plan.shiftsPT) >= 1 /\ Len(roster) >= 3

\* C7 - roster completeness: one entry per unit of count of every merged
\* window, as many FT (PT) entries as FT (PT) shifts placed, each entry with
\* the start, end and hours = end - start of its window.
C7_RosterCompleteness ==
    Rostered =>
        /\ Len(roster) = CountSum(plan.shiftsFT, 1) + CountSum(plan.shiftsPT, 1)
        /\ Cardinality(EntriesOf("FT")) = placedFT
        /\ Cardinality(EntriesOf("PT")) = placedPT
        /\ \A j \in 1..Len(plan.shiftsFT) :
              Cardinality(EntriesAt("FT", plan.shiftsFT[j])) = plan.shiftsFT[j].count
        /\ \A j \in 1..Len(plan.shiftsPT) :
              Cardinality(EntriesAt("PT", plan.shiftsPT[j])) = plan.shiftsPT[j].count
        /\ \A i \in 1..Len(roster) : roster[i].hours = roster[i].end - roster[i].start

C7_Witness ==
    /\ Rostered
    /\ \E j \in 1..Len(plan.shiftsFT) : plan.shiftsFT[j].count >= 2
    /\ Len(plan.shiftsPT) >= 1
    /\ Len(roster) >= 4

\* C8 - lunch inside the shift: for every roster entry,
\* start*60 <= lunchStart <= lunchEnd <= end*60, also when the lunch is
\* longer than the shift.
C8_LunchWithinShift ==
    \A i \in 1..Len(roster) :
        /\ roster[i].start * 60 <= roster[i].lunchStart
        /\ roster[i].lunchStart <= roster[i].lunchEnd
        /\ roster[i].lunchEnd <= roster[i].end * 60

C8_Witness ==
    /\ Rostered
    /\ \E i \in 1..Len(roster) :
          /\ lunchDurOf(lunchMinutes) > roster[i].hours * 60
          /\ roster[i].lunchStart = roster[i].start * 60
          /\ roster[i].lunchEnd = roster[i].end * 60

\* C9 - totals default to the caps: with totalFT (totalPT) left blank the
\* limit maxFTShifts (maxPTShifts) is the resolved capFT (capPT), so no more
\* FT (PT) shifts than capFT (capPT) are placed; a supplied total is the
\* limit itself (a negative one counts as 0).
C9_TotalsDefaultToCaps ==
    (runs > 0) =>
        /\ totalFT = Blank => (limits.maxFTShifts = limits.capFT /\ placedFT <= limits.capFT)
        /\ totalPT = Blank => (limits.maxPTShifts = limits.capPT /\ placedPT <= limits.capPT)
        /\ totalFT # Blank => limits.maxFTShifts = Max(0, totalFT[1])
        /\ totalPT # Blank => limits.maxPTShifts = Max(0, totalPT[1])

C9_Witness ==
    /\ pc = "done"
    /\ totalFT = Blank /\ capFT # Blank /\ placedFT = limits.capFT /\ placedFT > 0
    /\ totalPT # Blank /\ limits.maxPTShifts > limits.capPT

\* C10 - scenario A: required 5 at hour 8 only, capFT = maxFTShifts = 5,
\* capPT = maxPTShifts = 0, strategy ft_first: the plan is the single FT
\* window 1..9 with count 5, no PT window, coverage 5 and shortage 0 at 8.
ScenarioA ==
    /\ requiredPerHourInt = [h \in Hours |-> IF h = 8 THEN 5 ELSE 0]
    /\ limits = [capFT |-> 5, capPT |-> 0, maxFTShifts |-> 5, maxPTShifts |-> 0]
    /\ opts.strategy = "ft_first"

C10_ScenarioA ==
    (Planned /\ ScenarioA) =>
        /\ plan.shiftsFT = <<[start |-> 1, end |-> 9, count |-> 5]>>
        /\ plan.shiftsPT = << >>
        /\ plan.coverage[8] = 5
        /\ plan.shortage[8] = 0

C10_Witness == pc = "done" /\ ScenarioA /\ placedFT = 5

\* C11 - totals of the recommendation: totalShort is the sum and peakShort
\* the maximum of the plan's shortage, minFT8 is the larger of peakShort and
\* ceil(totalShort / 8); a shortage of 3 at hour 7 only gives 3, 3 and 3.
ShortageTotal == plan.shortage[0] + SumFromTo(plan.shortage, 1, H - 1)
ScenarioC == plan.shortage = [h \in Hours |-> IF h = 7 THEN 3 ELSE 0]

C11_HireTotals ==
    (pc = "done") =>
        /\ recs.totalShort = ShortageTotal
        /\ \A h \in Hours : plan.shortage[h] <= recs.peakShort
        /\ recs.peakShort = 0 \/ \E h \in Hours : plan.shortage[h] = recs.peakShort
        /\ recs.minFT8 >= recs.peakShort
        /\ 8 * recs.minFT8 >= ShortageTotal
        /\ recs.minFT8 = recs.peakShort \/ 8 * (recs.minFT8 - 1) < ShortageTotal
        /\ ScenarioC => (recs.totalShort = 3 /\ recs.peakShort = 3 /\ recs.minFT8 = 3)

C11_Witness ==
    /\ pc = "done"
    /\ recs.minFT8 > recs.peakShort /\ recs.peakShort > 0
    /\ 8 * recs.minFT8 > recs.totalShort

\* C12 - no shortage, no recommendation: for a plan whose shortage is zero
\* at all 24 hours computeHireRecommendations returns null.
C12_NoneIfNoShortage ==
    (pc = "done" /\ \A h \in Hours : plan.shortage[h] = 0) => recs = Null

\* C13 - windows inside the day: every FT window has 0 <= start <= 16 and
\* end = start + 8, every PT window 0 <= start <= 24 - ptLenHours and
\* end = start + ptLenHours; no window ends after hour 24.
InsideDay(w, len) ==
    /\ 0 <= w.start /\ w.start <= H - len
    /\ w.end = w.start + len
    /\ w.end <= H

AllInsideDay(sFT, sPT) ==
    /\ \A i \in 1..Len(sFT) : InsideDay(sFT[i], 8)
    /\ \A i \in 1..Len(sPT) : InsideDay(sPT[i], opts.ptLenHours)

C13_WindowsInsideDay ==
    /\ AllInsideDay(shiftsFT, shiftsPT)
    /\ Planned => AllInsideDay(plan.shiftsFT, plan.shiftsPT)

C13_Witness ==
    /\ Planned /\ opts.ptLenHours = 6
    /\ \E i \in 1..Len(plan.shiftsFT) : plan.shiftsFT[i].start = 16 /\ plan.shiftsFT[i].end = 24
    /\ \E i \in 1..Len(plan.shiftsPT) : plan.shiftsPT[i].start = 18 /\ plan.shiftsPT[i].end = 24
    /\ \E i \in 1..Len(plan.shiftsPT) : plan.shiftsPT[i].start = 0

\* C14 - roster identifiers: the FT entries are numbered FT-1..FT-n and the
\* PT entries PT-1..PT-m, each in roster order, so no identifier is used
\* twice.
NthOf(type, i) == Cardinality({j \in EntriesOf(type) : j <= i})

C14_RosterIdentifiers ==
    Rostered =>
        /\ \A i \in 1..Len(roster) :
              /\ roster[i].type \in {"FT", "PT"}
              /\ roster[i].agent = <<roster[i].type, NthOf(roster[i].type, i)>>
        /\ \A i, j \in 1..Len(roster) : roster[i].agent = roster[j].agent => i = j

C14_Witness ==
    /\ Rostered
    /\ Cardinality(EntriesOf("FT")) >= 2
    /\ Cardinality(EntriesOf("PT")) >= 2

\* C15 - requirement normalizer: a missing Staff figure and a negative one
\* give 0, any other figure x gives ceil(x); every entry of the required
\* vector is an integer >= 0.  (rows hold 2x.)
C15_Normalizer ==
    (runs > 0) =>
        \A h \in Hours :
            /\ requiredPerHourInt[h] \in Nat
            /\ rows[h] = Blank => requiredPerHourInt[h] = 0
            /\ (rows[h] # Blank /\ rows[h][1] < 0) => requiredPerHourInt[h] = 0
            /\ (rows[h] # Blank /\ rows[h][1] >= 0) =>
                  /\ 2 * requiredPerHourInt[h] >= rows[h][1]
                  /\ 2 * (requiredPerHourInt[h] - 1) < rows[h][1]

C15_Witness ==
    /\ pc = "loop"
    /\ \E h \in Hours : rows[h] = Blank /\ requiredPerHourInt[h] = 0
    /\ \E h \in Hours : rows[h] # Blank /\ rows[h][1] = 3 /\ requiredPerHourInt[h] = 2

\* C16 - lunch start: lunchStart is 30 * round-half-up(target / 30) with
\* target = start*60 + (end - start)*30 - lunchMinutes/2, but not before
\* start*60; an 8-hour shift from hour 9 with a 30 minute lunch has target
\* 765, lunchStart 780 and lunchEnd 810.  (k is the rounded quotient:
\* k - 1/2 <= target/30 < k + 1/2, stated on 2 * target.)
LunchGiven == lunchMinutes # Blank /\ lunchMinutes[1] >= 0
TwiceTarget(e) == 2 * (e.start * 60) + (e.end - e.start) * 60 - lunchMinutes[1]

C16_LunchStart ==
    (Rostered /\ LunchGiven) =>
        \A i \in 1..Len(roster) :
            /\ \E k \in -10..50 :
                  /\ 60 * k - 30 <= TwiceTarget(roster[i])
                  /\ TwiceTarget(roster[i]) < 60 * k + 30
                  /\ roster[i].lunchStart = Max(roster[i].start * 60, 30 * k)
            /\ (roster[i].start = 9 /\ roster[i].end = 17 /\ lunchMinutes[1] = 30) =>
                  (roster[i].lunchStart = 780 /\ roster[i].lunchEnd = 810)

C16_Witness ==
    /\ Rostered /\ LunchGiven /\ lunchMinutes[1] = 30
    /\ \E i \in 1..Len(roster) :
          /\ roster[i].start = 9 /\ roster[i].end = 17
          /\ TwiceTarget(roster[i]) = 2 * 765
          /\ roster[i].lunchStart = 780

\* C17 - lunch duration (as claimed): for every roster entry and every
\* non-negative lunchMinutes, lunchEnd = lunchStart + lunchMinutes.
C17_LunchDurationAlways ==
    (Rostered /\ LunchGiven) =>
        \A i \in 1..Len(roster) :
            roster[i].lunchEnd = roster[i].lunchStart + lunchMinutes[1]

\* C17 - lunch duration (amended): for every roster entry whose shift is at
\* least lunchMinutes long, lunchEnd = lunchStart + lunchMinutes.
C17_LunchDurationWithinShift ==
    (Rostered /\ LunchGiven) =>
        \A i \in 1..Len(roster) :
            lunchMinutes[1] <= roster[i].hours * 60 =>
                roster[i].lunchEnd = roster[i].lunchStart + lunchMinutes[1]

C17_Witness ==
    /\ Rostered /\ LunchGiven
    /\ \E i \in 1..Len(roster) :
          /\ lunchMinutes[1] = roster[i].hours * 60 - 30
          /\ roster[i].lunchStart = roster[i].start * 60 + 30
          /\ roster[i].lunchEnd = roster[i].end * 60
    /\ \E i \in 1..Len(roster) : lunchMinutes[1] < roster[i].hours * 60 - 30

\* C18 - the planner is total: it always returns a plan whose 24-hour
\* vectors hold natural numbers; with capFT = capPT = 0, or with
\* maxFTShifts = maxPTShifts = 0, it places nothing: coverage is 0 and
\* shortage is the requirement at every hour, and both window lists are
\* empty.
NothingAllowed ==
    \/ (limits.capFT = 0 /\ limits.capPT = 0)
    \/ (limits.maxFTShifts = 0 /\ limits.maxPTShifts = 0)

C18_TotalPlanner ==
    Planned =>
        /\ \A h \in Hours : /\ plan.coverage[h] \in Nat /\ plan.shortage[h] \in Nat
                             /\ plan.excess[h] \in Nat
        /\ plan.maxConcurrent \in Nat
        /\ NothingAllowed =>
              /\ placedFT = 0 /\ placedPT = 0
              /\ plan.shiftsFT = << >> /\ plan.shiftsPT = << >>
              /\ \A h \in Hours : /\ plan.coverage[h] = 0
                                   /\ plan.shortage[h] = requiredPerHourInt[h]

C18_Witness ==
    /\ Planned
    /\ limits.maxFTShifts = 0 /\ limits.maxPTShifts = 0
    /\ limits.capFT > 0 /\ limits.capPT > 0
    /\ \E h \in Hours : plan.shortage[h] > 0
    /\ iters = 1

\* C19 - the FT-only recommendation suffices: some choice of minFT8
\* eight-hour windows with starts 0..16 covers every hour h at least
\* shortage[h] times.  (The fewest windows that do are found by a sweep
\* from hour 0: an hour still short is covered by windows starting as late
\* as possible, at min(h, 16).)
CoveredBy(starts, h) ==
    LET lo == Max(0, h - FT + 1)
        hi == Min(h, H - FT)
    IN  SumFromTo(starts, lo, hi)

RECURSIVE Sweep(_, _, _)
Sweep(short, h, starts) ==
    IF h > H - 1 THEN SumFromTo(starts, 0, H - FT)
    ELSE LET need == Max(0, short[h] - CoveredBy(starts, h))
             at == Min(h, H - FT)
         IN  Sweep(short, h + 1, [starts EXCEPT ![at] = starts[at] + need])

FewestFTWindows(short) == Sweep(short, 0, [s \in 0..(H - FT) |-> 0])

C19_MinFT8Suffices ==
    (pc = "done") => FewestFTWindows(plan.shortage) <= recs.minFT8

\* C20 - merged window lists: each returned list is sorted by start then
\* end with no (start, end) twice, every count is at least 1, and the
\* counts sum to the number of shifts of the class that the loop placed.
StrictlySorted(l) ==
    \A i, j \in 1..Len(l) :
        i < j => \/ l[i].start < l[j].start
                 \/ (l[i].start = l[j].start /\ l[i].end < l[j].end)

C20_MergedLists ==
    Planned =>
        /\ StrictlySorted(plan.shiftsFT) /\ StrictlySorted(plan.shiftsPT)
        /\ \A i \in 1..Len(plan.shiftsFT) : plan.shiftsFT[i].count >= 1
        /\ \A i \in 1..Len(plan.shiftsPT) : plan.shiftsPT[i].count >= 1
        /\ CountSum(plan.shiftsFT, 1) = placedFT
        /\ CountSum(plan.shiftsPT, 1) = placedPT

C20_Witness ==
    /\ Planned
    /\ Len(plan.shiftsPT) >= 2 /\ Len(plan.shiftsPT) < placedPT
    /\ Len(plan.shiftsFT) >= 2

\* C21 - the placed start is the best one: whenever placeOneFT or placeOnePT
\* succeeds, the start it places is feasible in the state before, its score
\* there (the sum over the window of min(deficit[h], min(combined room,
\* class room))) is the largest among the feasible starts of the class, and
\* every feasible start before it scores strictly less.
LengthOf(type) == IF type = "FT" THEN 8 ELSE opts.ptLenHours
StartsOf(type) == 0..(H - LengthOf(type))
CombinedRoom(h) == limits.capFT + limits.capPT - (covFT[h] + covPT[h])
ClassRoom(type, h) ==
    IF type = "FT" THEN limits.capFT - covFT[h] ELSE limits.capPT - covPT[h]
TotalReached(type) ==
    IF type = "FT" THEN placedFT >= limits.maxFTShifts ELSE placedPT >= limits.maxPTShifts

Feasible(type, s) ==
    /\ s \in StartsOf(type)
    /\ ~TotalReached(type)
    /\ \A h \in s..(s + LengthOf(type) - 1) : CombinedRoom(h) > 0 /\ ClassRoom(type, h) > 0

RECURSIVE ScoreSum(_, _, _)
ScoreSum(type, h, last) ==
    IF h > last THEN 0
    ELSE Min(deficit[h], Min(CombinedRoom(h), ClassRoom(type, h))) + ScoreSum(type, h + 1, last)

ScoreOf(type, s) == ScoreSum(type, s, s + LengthOf(type) - 1)

BestStart(type, s) ==
    /\ Feasible(type, s)
    /\ \A t \in StartsOf(type) :
          Feasible(type, t) =>
              /\ ScoreOf(type, t) <= ScoreOf(type, s)
              /\ t < s => ScoreOf(type, t) < ScoreOf(type, s)

C21_BestStart ==
    [][/\ placedFT' = placedFT + 1 => BestStart("FT", shiftsFT'[Len(shiftsFT')].start)
       /\ placedPT' = placedPT + 1 => BestStart("PT", shiftsPT'[Len(shiftsPT')].start)]_vars

\* a part-time placement is due, one was made before, and the largest score
\* is shared by two feasible starts while a third one scores less
C21_Witness ==
    /\ pc = "loop" /\ due = "PT" /\ placedPT > 0 /\ placedFT > 0
    /\ \E s, t, u \in StartsOf("PT") :
          /\ s < t
          /\ Feasible("PT", s) /\ Feasible("PT", t) /\ Feasible("PT", u)
          /\ ScoreOf("PT", s) = ScoreOf("PT", t)
          /\ 0 < ScoreOf("PT", u) /\ ScoreOf("PT", u) < ScoreOf("PT", s)
          /\ \A v \in StartsOf("PT") : Feasible("PT", v) => ScoreOf("PT", v) <= ScoreOf("PT", s)

\* C22 - no useless shift: every placement covers an hour whose deficit was
\* positive just before it, so it strictly decreases the sum of the
\* deficits, and the number of shifts placed in a run never exceeds the sum
\* of the required vector.
DeficitSum == SumFromTo(deficit, 0, H - 1)
RequiredSum == SumFromTo(requiredPerHourInt, 0, H - 1)
Useful(w) == \E h \in w.start..(w.end - 1) : deficit[h] > 0

C22_NoUselessShift ==
    [][/\ placedFT' = placedFT + 1 =>
             (Useful(shiftsFT'[Len(shiftsFT')]) /\ DeficitSum' < DeficitSum)
       /\ placedPT' = placedPT + 1 =>
             (Useful(shiftsPT'[Len(shiftsPT')]) /\ DeficitSum' < DeficitSum)
       /\ placedFT' + placedPT' <= RequiredSum']_vars

\* a run that stopped with people and seats left over for both classes:
\* every shift one could still place would cover no hour in deficit
C22_Witness ==
    /\ pc = "merge" /\ placedFT > 0 /\ placedPT > 0
    /\ placedFT + placedPT < RequiredSum
    /\ \E s \in StartsOf("FT") : Feasible("FT", s) /\ ScoreOf("FT", s) = 0
    /\ \E s \in StartsOf("PT") : Feasible("PT", s) /\ ScoreOf("PT", s) = 0

\* C23 - auto is the weekend-dependent choice of a fixed order: on the same
\* required vector, limits and PT length, strategy auto returns the same
\* PlanResult as pt_first when isWeekend is true and the same as ft_first
\* when it is false.
FixedOrderOfAuto == IF opts.isWeekend THEN "pt_first" ELSE "ft_first"

C23_AutoIsFixedOrder ==
    (pc = "done" /\ prev # Null /\ prev.strategy = "auto" /\ strategy = FixedOrderOfAuto) =>
        plan = prev.plan

C23_Witness ==
    /\ pc = "done" /\ prev # Null /\ prev.strategy = "auto"
    /\ opts.isWeekend /\ opts.strategy = "pt_first"
    /\ plan = prev.plan
    /\ Len(plan.shiftsFT) >= 1 /\ Len(plan.shiftsPT) >= 1
    /\ \E h \in Hours : plan.shortage[h] > 0

\* C24 - the mixed loop: with target = clamp(mixedFtPercent, 0, 100) / 100
\* and share = ft / (ft + pt), taken as 1 when nothing is placed, an
\* iteration attempts FT then PT when share < target and PT then FT
\* otherwise; the second attempt is made whatever the first one gave; the
\* loop goes on exactly when one of the two attempts placed a shift; ft and
\* pt are the numbers of FT and PT shifts placed.  (An attempt places a
\* shift exactly when some feasible start of its class has a positive
\* score; a comparison with a percentage that is not a number is false.)
InMixedLoop == pc = "loop" /\ opts.strategy = "mixed"

ShareBelowClampedTarget ==
    /\ ~opts.mixedFtPercent.nan
    /\ LET target == Min(100, Max(0, opts.mixedFtPercent.val))
       IN  IF ft + pt > 0 THEN 100 * ft < target * (ft + pt) ELSE 100 < target

Placeable(type) == \E s \in StartsOf(type) : Feasible(type, s) /\ ScoreOf(type, s) > 0

Attempted(type) ==
    LET gain == IF Placeable(type) THEN 1 ELSE 0
    IN  IF type = "FT"
        THEN placedFT' = placedFT + gain /\ placedPT' = placedPT
        ELSE placedPT' = placedPT + gain /\ placedFT' = placedFT

Succeeded == placedFT' + placedPT' > placedFT + placedPT

C24_MixedLoop ==
    [][/\ (InMixedLoop /\ turn = "first") =>
             LET c == IF ShareBelowClampedTarget THEN "FT" ELSE "PT"
             IN  /\ Attempted(c) /\ order' = c
                 /\ pc' = "loop" /\ turn' = "second"
                 /\ progress' = Succeeded
       /\ (InMixedLoop /\ turn = "second") =>
             /\ Attempted(Other(order))
             /\ pc' \in {"loop", "merge"}
             /\ (pc' = "loop") = (progress \/ Succeeded)
             /\ pc' = "loop" => turn' = "first"
       /\ opts'.strategy = "mixed" => (ft' = placedFT' /\ pt' = placedPT')]_vars

\* the share is below the target, the FT attempt came first and failed, and
\* the PT attempt that follows can still place a shift
C24_Witness ==
    /\ InMixedLoop /\ turn = "second" /\ order = "FT" /\ ~progress
    /\ ft > 0 /\ pt > 0 /\ ft = placedFT /\ pt = placedPT
    /\ Placeable("PT")

\* C25 - the plan is maximal when the loop stops: once the loop has ended,
\* for each class either its total is reached or every start still
\* feasible for it has score 0; and for every hour still short, no window
\* of either class that contains the hour can be placed within the class
\* cap, the combined cap and the total.
LoopEnded == pc \in {"merge", "roster", "recs", "done"}
StillShort(h) == Max(0, requiredPerHourInt[h] - (covFT[h] + covPT[h])) > 0
Contains(type, s, h) == s <= h /\ h < s + LengthOf(type)

C25_MaximalPlan ==
    LoopEnded =>
        \A type \in {"FT", "PT"} :
            /\ \/ TotalReached(type)
               \/ \A s \in StartsOf(type) : Feasible(type, s) => ScoreOf(type, s) = 0
            /\ \A h \in Hours :
                  StillShort(h) =>
                      \A s \in StartsOf(type) : Contains(type, s, h) => ~Feasible(type, s)

\* the loop stopped with hours still short and shifts placed, while for
\* full-time neither the total nor the seats are used up: a start is still
\* feasible but covers no hour in deficit
C25_Witness ==
    /\ pc = "merge" /\ placedFT > 0 /\ placedPT > 0
    /\ \E h \in Hours : StillShort(h)
    /\ ~TotalReached("FT")
    /\ \E s \in StartsOf("FT") : Feasible("FT", s)
    /\ TotalReached("PT")

\* C26 - the part-time and mixed recommendations: minPTcur, minPT4 and
\* minPT6 are ceil(totalShort / length) for the active length, 4 and 6,
\* with no floor at the peak; mixed.ft = max(peakShort, floor(totalShort/8))
\* and mixed.pt = ceil(max(0, totalShort - 8 * mixed.ft) / ptLenHours); so
\* 8 * mixed.ft + ptLenHours * mixed.pt >= totalShort and
\* mixed.ft <= minFT8.  (n is ceil(a / b) when b*(n-1) < a <= b*n, and
\* floor(a / b) when b*n <= a < b*(n+1).)
IsCeil(n, a, b) == b * (n - 1) < a /\ a <= b * n
IsFloor(n, a, b) == b * n <= a /\ a < b * (n + 1)
PeakOfShortage == CHOOSE m \in {0} \cup {plan.shortage[h] : h \in Hours} :
                      \A h \in Hours : plan.shortage[h] <= m

C26_PartTimeAndMixed ==
    (pc = "done") =>
        LET total == ShortageTotal
            len == opts.ptLenHours
        IN  /\ len \in {4, 6}
            /\ IsCeil(recs.minPTcur, total, len)
            /\ IsCeil(recs.minPT4, total, 4)
            /\ IsCeil(recs.minPT6, total, 6)
            /\ recs.mixed.ft >= PeakOfShortage
            /\ \/ recs.mixed.ft = PeakOfShortage
               \/ IsFloor(recs.mixed.ft, total, 8)
            /\ \E f \in 0..total : IsFloor(f, total, 8) /\ recs.mixed.ft >= f
            /\ IsCeil(recs.mixed.pt, Max(0, total - 8 * recs.mixed.ft), len)
            /\ 8 * recs.mixed.ft + len * recs.mixed.pt >= total
            /\ recs.mixed.ft <= recs.minFT8

\* a shortage whose total needs more part-timers than its peak, some of
\* them next to the full-timers of the mixed recommendation
C26_Witness ==
    /\ pc = "done"
    /\ recs.mixed.pt > 0 /\ recs.mixed.ft > PeakOfShortage /\ PeakOfShortage > 0
    /\ recs.mixed.ft < recs.minFT8
    /\ recs.minPTcur > recs.minPT6 \/ recs.minPTcur < recs.minPT4

\* C27 - minFT8 is a lower bound for FT-only coverage: every multiset of
\* eight-hour windows with starts 0..16 that covers each hour h at least
\* shortage[h] times has at least minFT8 windows.  (It is enough that the
\* fewest windows that cover the shortage, found by the sweep of C19, are
\* at least minFT8.)
C27_MinFT8LowerBound ==
    (pc = "done") => recs.minFT8 <= FewestFTWindows(plan.shortage)

\* the bound is set by the hours to cover, not by the peak, and the sweep
\* needs exactly that many windows; at least two shifts were placed
C27_Witness ==
    /\ pc = "done"
    /\ recs.minFT8 > recs.peakShort /\ recs.peakShort > 0
    /\ FewestFTWindows(plan.shortage) = recs.minFT8
    /\ recs.totalShort = 8 * recs.minFT8
    /\ placedFT + placedPT >= 2

\* C28 - the deficit is the residual requirement: in every state of a run
\* and for every hour, deficit[h] = max(0, required[h] - (covFT[h] +
\* covPT[h])); so the deficit at the end is the returned shortage; and the
\* required vector handed to the planner is not modified by the run.
Residual(h) == Max(0, requiredPerHourInt[h] - (covFT[h] + covPT[h]))

C28_DeficitIsResidual ==
    [][/\ \A h \in Hours : deficit'[h] = Residual(h)'
       /\ LoopEnded' /\ pc' # "merge" => deficit' = plan'.shortage
       /\ pc # "aggregates" =>
             /\ requiredPerHourInt' = requiredPerHourInt
             /\ LoopEnded' /\ pc' # "merge" => plan'.required = requiredPerHourInt]_vars

\* during the loop, after placements of both classes: an hour covered
\* beyond its requirement (the clamp at 0 acts) and an hour covered but
\* still short
C28_Witness ==
    /\ pc = "loop" /\ placedFT > 0 /\ placedPT > 0
    /\ \E h \in Hours : covFT[h] + covPT[h] > requiredPerHourInt[h] /\ deficit[h] = 0
    /\ \E h \in Hours : covFT[h] + covPT[h] > 0 /\ deficit[h] > 0

\* C29 - a class that fails stays failed: once placeOneFT (placeOnePT)
\* would return false in a run it returns false in every later state of
\* the run, whatever the other class places meanwhile; so under ft_first
\* and under auto on a weekday no FT placement follows a PT placement, and
\* under pt_first and under auto on a weekend no PT placement follows an
\* FT placement.
FTBeforePT ==
    opts.strategy = "ft_first" \/ (opts.strategy = "auto" /\ ~opts.isWeekend)
PTBeforeFT ==
    opts.strategy = "pt_first" \/ (opts.strategy = "auto" /\ opts.isWeekend)

C29_FailedStaysFailed ==
    [][(pc = "loop" /\ pc' \in {"loop", "merge"}) =>
           /\ ~Placeable("FT") => ~Placeable("FT")'
           /\ ~Placeable("PT") => ~Placeable("PT")'
           /\ (FTBeforePT /\ placedFT' = placedFT + 1) => placedPT = 0
           /\ (PTBeforeFT /\ placedPT' = placedPT + 1) => placedFT = 0]_vars

\* ft_first: full-time has failed for want of a useful start, not of
\* people, part-time went on placing, and full-time is asked again
C29_Witness ==
    /\ pc = "loop" /\ opts.strategy = "ft_first" /\ turn = "first"
    /\ placedFT > 0 /\ placedPT > 0
    /\ ~TotalReached("FT") /\ ~Placeable("FT")
    /\ \E s \in StartsOf("FT") : Feasible("FT", s)
    /\ Placeable("PT")
====
